---- MODULE Spec2Model ----
(***************************************************************************)
(* socket2: an owned wrapper (Socket { inner: RawFd }) around one OS       *)
(* socket descriptor.  The model has two layers:                           *)
(*   - the kernel side of every libc call the crate issues (libc_ names): *)
(*     the descriptor table and the per-socket state the calls use;      *)
(*   - the crate itself: the syscall! macro, the sys functions, the       *)
(*     Socket methods, the RawFd traits, Drop and the std conversions.     *)
(* `last` records the most recent operation: the native calls it issued    *)
(* and what it returned to the caller.                                     *)
(***************************************************************************)
EXTENDS Integers, Sequences, FiniteSets

\* ------------------------------------------------------------------ bounds
MaxFds == 3       \* the descriptor table holds 1..MaxFds (0 is never a socket)
NoFile == 2       \* RLIMIT_NOFILE where the connections of three sockets are not the point
MaxMisuse == 1    \* how often the caller may break the contract of the unsafe from_raw_fd
MaxAddr == 2      \* concrete local addresses 1..MaxAddr (0 = unspecified / port 0)
MaxBacklog == 1   \* pending connections a listener queues

Fds == 1..MaxFds
Addrs == 1..MaxAddr
AnyAddr == Addrs \cup {0}

VARIABLES
    nofile,     \* kernel: RLIMIT_NOFILE, how many descriptors the process may have open
    debug_assertions, \* build: whether debug_assert! is compiled in (debug) or out (release)
    fdt,        \* kernel: descriptor -> socket state (open flag, addresses, queue, ...)
    socks,      \* live Socket values: descriptor value -> how many Sockets hold it as `inner`
    hosts,      \* live std objects (TcpStream, TcpListener, ...): descriptor -> how many
    raws,       \* raw descriptors the caller owns after into_raw_fd
    misuse,     \* history: how often from_raw_fd was handed a descriptor the caller did not own
    last        \* the most recent operation: native calls issued and the result returned

vars == <<nofile, debug_assertions, fdt, socks, hosts, raws, misuse, last>>

\* ------------------------------------------------------------ kernel state
ClosedSock ==
    [open |-> FALSE, laddr |-> 0, lis |-> FALSE, conn |-> FALSE, peer |-> 0,
     q |-> <<>>, err |-> 0, opt |-> 0]

FreshSock == [ClosedSock EXCEPT !.open = TRUE]

IsOpen(t, fd) == fd \in Fds /\ t[fd].open

OpenFds(t) == {fd \in Fds : t[fd].open}

FreeFds(t) == Fds \ OpenFds(t)

\* POSIX: a new descriptor is the lowest-numbered one not open in the process.
LowestFree(t) == CHOOSE fd \in FreeFds(t) : \A g \in FreeFds(t) : fd <= g

\* The table and RLIMIT_NOFILE leave room for n more descriptors.
Room(t, n) ==
    /\ Cardinality(FreeFds(t)) >= n
    /\ Cardinality(OpenFds(t)) + n <= nofile

RangeOf(seq) == {seq[i] : i \in 1..Len(seq)}

\* Addresses some socket, connection or pending connection still uses.
UsedAddrs(t) ==
    UNION {{t[fd].laddr, t[fd].peer} \cup {e.addr : e \in RangeOf(t[fd].q)}
           : fd \in OpenFds(t)}

\* A pending connection: the client's address, and (history) the descriptor it
\* connected through, 0 once the client has closed it.
Pending(a, fd) == [addr |-> a, from |-> fd]

\* The client side going away leaves its pending connections queued.
Orphaned(q, fd) ==
    [i \in 1..Len(q) |-> IF q[i].from = fd THEN Pending(q[i].addr, 0) ELSE q[i]]

FreeAddrs(t) == Addrs \ UsedAddrs(t)

\* One native call as the crate sees it: the C return value, errno, the kernel
\* state afterwards and the out-parameters the kernel wrote.
Outcome(ret, errno, t, out) == [ret |-> ret, errno |-> errno, fdt |-> t, out |-> out]

NoOut == <<>>

Fail(e, t) == {Outcome(-1, e, t, NoOut)}

\* The length the kernel reports for the addresses it writes (sockaddr_in).
NativeAddrLen == 16

\* socket(2)
libc_socket(t, domain, type_, protocol) ==
    IF ~Room(t, 1) THEN Fail("EMFILE", t)
    ELSE {Outcome(LowestFree(t), "", [t EXCEPT ![LowestFree(t)] = FreshSock], NoOut)}
         \cup Fail("ENOBUFS", t)

\* socketpair(2): AF_UNIX (1) only; writes the two descriptors into the array.
libc_socketpair(t, domain, type_, protocol) ==
    IF domain # 1 THEN Fail("EOPNOTSUPP", t)
    ELSE IF ~Room(t, 2) THEN Fail("EMFILE", t)
    ELSE LET a == LowestFree(t)
             ta == [t EXCEPT ![a] = [FreshSock EXCEPT !.conn = TRUE]]
             b == LowestFree(ta)
             tb == [ta EXCEPT ![b] = [FreshSock EXCEPT !.conn = TRUE]]
         IN {Outcome(0, "", tb, [sv |-> <<a, b>>])}

\* close(2)
libc_close(t, fd) ==
    IF IsOpen(t, fd)
    THEN {Outcome(0, "",
                  [g \in Fds |-> IF g = fd THEN ClosedSock
                                 ELSE [t[g] EXCEPT !.q = Orphaned(@, fd)]],
                  NoOut)}
    ELSE Fail("EBADF", t)

\* bind(2): address 0 asks for an ephemeral one, which the kernel picks.
libc_bind(t, fd, addr, len) ==
    IF ~IsOpen(t, fd) THEN Fail("EBADF", t)
    ELSE IF t[fd].laddr # 0 \/ t[fd].conn THEN Fail("EINVAL", t)
    ELSE IF addr = 0
    THEN IF FreeAddrs(t) = {} THEN Fail("EADDRINUSE", t)
         ELSE {Outcome(0, "", [t EXCEPT ![fd].laddr = a], NoOut) : a \in FreeAddrs(t)}
    ELSE IF addr \notin FreeAddrs(t) THEN Fail("EADDRINUSE", t)
    ELSE {Outcome(0, "", [t EXCEPT ![fd].laddr = addr], NoOut)}

\* listen(2): the kernel clamps the backlog to MaxBacklog.
libc_listen(t, fd, backlog) ==
    IF ~IsOpen(t, fd) THEN Fail("EBADF", t)
    ELSE IF t[fd].laddr = 0 \/ t[fd].conn THEN Fail("EINVAL", t)
    ELSE {Outcome(0, "", [t EXCEPT ![fd].lis = TRUE], NoOut)}

Listeners(t, addr) ==
    {l \in OpenFds(t) : t[l].lis /\ t[l].laddr = addr /\ addr # 0}

\* connect(2): queues the connection at the listener bound to addr; an unbound
\* socket gets an ephemeral local address first.
libc_connect(t, fd, addr, len) ==
    IF ~IsOpen(t, fd) THEN Fail("EBADF", t)
    ELSE IF t[fd].conn \/ t[fd].lis THEN Fail("EISCONN", t)
    ELSE IF Listeners(t, addr) = {} THEN Fail("ECONNREFUSED", t)
    ELSE LET l == CHOOSE x \in Listeners(t, addr) : TRUE
             locals == IF t[fd].laddr # 0 THEN {t[fd].laddr} ELSE FreeAddrs(t)
         IN IF Len(t[l].q) >= MaxBacklog THEN Fail("ECONNREFUSED", t)
            ELSE IF locals = {} THEN Fail("EADDRNOTAVAIL", t)
            ELSE {Outcome(0, "",
                          [t EXCEPT ![fd].laddr = a, ![fd].conn = TRUE, ![fd].peer = addr,
                                    ![l].q = Append(@, Pending(a, fd))],
                          NoOut) : a \in locals}

\* accept(2) / accept4(2): takes the oldest pending connection; writes the peer's
\* address and its length.
libc_accept(t, fd) ==
    IF ~IsOpen(t, fd) THEN Fail("EBADF", t)
    ELSE IF ~t[fd].lis THEN Fail("EINVAL", t)
    ELSE IF t[fd].q = <<>> THEN Fail("EAGAIN", t)
    ELSE IF ~Room(t, 1) THEN Fail("EMFILE", t)
    ELSE LET n == LowestFree(t)
             c == Head(t[fd].q).addr
         IN {Outcome(n, "",
                     [t EXCEPT ![fd].q = Tail(@),
                               ![n] = [FreshSock EXCEPT !.laddr = t[fd].laddr,
                                                        !.conn = TRUE, !.peer = c]],
                     [addr |-> c, len |-> NativeAddrLen])}

\* getsockname(2)
libc_getsockname(t, fd) ==
    IF ~IsOpen(t, fd) THEN Fail("EBADF", t)
    ELSE {Outcome(0, "", t, [addr |-> t[fd].laddr, len |-> NativeAddrLen])}

\* getpeername(2)
libc_getpeername(t, fd) ==
    IF ~IsOpen(t, fd) THEN Fail("EBADF", t)
    ELSE IF ~t[fd].conn THEN Fail("ENOTCONN", t)
    ELSE {Outcome(0, "", t, [addr |-> t[fd].peer, len |-> NativeAddrLen])}

\* shutdown(2): SHUT_RD = 0, SHUT_WR = 1, SHUT_RDWR = 2.  What it does to the
\* data path is outside this model.
libc_shutdown(t, fd, how) ==
    IF ~IsOpen(t, fd) THEN Fail("EBADF", t)
    ELSE IF ~t[fd].conn THEN Fail("ENOTCONN", t)
    ELSE IF how \notin {0, 1, 2} THEN Fail("EINVAL", t)
    ELSE {Outcome(0, "", t, NoOut)}

\* fcntl(2): F_GETFD = 1 returns the descriptor flags (none are set on a fresh
\* socket), F_SETFD = 2 takes them; any other command is EINVAL.
libc_fcntl(t, fd, cmd, arg) ==
    IF ~IsOpen(t, fd) THEN Fail("EBADF", t)
    ELSE IF cmd \in {1, 2} THEN {Outcome(0, "", t, NoOut)}
    ELSE Fail("EINVAL", t)

\* Option values cross the boundary as bytes.  An int is 4 bytes, little-endian.
Min(a, b) == IF a < b THEN a ELSE b

Take(bytes, n) == SubSeq(bytes, 1, Min(n, Len(bytes)))

IntBytes(v) == <<v % 256, (v \div 256) % 256, 0, 0>>

RECURSIVE ToInt(_)
ToInt(bytes) == IF bytes = <<>> THEN 0 ELSE Head(bytes) + 256 * ToInt(Tail(bytes))

\* SOL_SOCKET = 1.  SO_ERROR = 4 is the read-only pending-error slot; SO_RCVLOWAT =
\* 18 stands for an int option the kernel stores as given.
\* setsockopt(2): an int option needs at least 4 bytes and takes the first 4.
libc_setsockopt(t, fd, level, optname, optval, optlen) ==
    IF ~IsOpen(t, fd) THEN Fail("EBADF", t)
    ELSE IF level # 1 \/ optname # 18 THEN Fail("ENOPROTOOPT", t)
    ELSE IF optlen < 4 THEN Fail("EINVAL", t)
    ELSE {Outcome(0, "", [t EXCEPT ![fd].opt = ToInt(Take(optval, 4))], NoOut)}

\* getsockopt(2): writes at most optlen bytes of the int and reports how many it
\* wrote; reading SO_ERROR clears the slot.
libc_getsockopt(t, fd, level, optname, optlen) ==
    IF ~IsOpen(t, fd) THEN Fail("EBADF", t)
    ELSE IF level # 1 \/ optname \notin {4, 18} THEN Fail("ENOPROTOOPT", t)
    ELSE LET v == IF optname = 4 THEN t[fd].err ELSE t[fd].opt
             n == Min(optlen, 4)
         IN {Outcome(0, "",
                     IF optname = 4 THEN [t EXCEPT ![fd].err = 0] ELSE t,
                     [val |-> Take(IntBytes(v), n), len |-> n])}

\* ------------------------------------------------------- crate: results
\* io::Result<T>
Ok(v) == [tag |-> "Ok", val |-> v, errno |-> ""]
Err(e) == [tag |-> "Err", val |-> <<>>, errno |-> e]

\* The values that travel in a result: (), a c_int (RawFd is one), a pair,
\* Option<T>.
Unit == <<>>
c_int(v) == [c_int |-> v]
Pair(a, b) == [fst |-> a, snd |-> b]
None == <<>>
Some(v) == [some |-> v]

\* The record of one native call: which function, on which descriptor, with which
\* arguments, whether that descriptor was open when the call was made, and what
\* the kernel answered: its return value, errno, and what it wrote through the
\* out-pointers.
Call(fn, fd, args, t, o) ==
    [fn |-> fn, fd |-> fd, args |-> args, open |-> IsOpen(t, fd),
     ret |-> o.ret, errno |-> o.errno, out |-> o.out]

\* (mutant) takes any nonzero return for a failure.
syscall_nonzero(o) == IF o.ret # 0 THEN Err(o.errno) ELSE Ok(o.ret)

\* syscall!: run the call once; -1 becomes Err(last_os_error()), anything else Ok(res).
syscall(o) == IF o.ret = -1 THEN Err(o.errno) ELSE Ok(o.ret)

\* Result::map, v being what the closure makes of the Ok value.
map(r, v) == IF r.tag = "Ok" THEN Ok(v) ELSE r

\* What a sys function hands back: the io::Result, the kernel state afterwards and
\* the native calls it made.
Ret(res, t, calls) == [res |-> res, fdt |-> t, calls |-> calls]

\* struct Socket { inner }
Socket(fd) == [inner |-> fd]

\* Option<Protocol>: None is <<>>, Some(Protocol(p)) is <<p>>.
Domains == {1, 2}
Types == {1}
Protocols == {<<>>, <<6>>}
\* (mutant) the default whatever the option holds.
unwrap_or_default(opt, d) == d

unwrap_or(opt, d) == IF opt = <<>> THEN d ELSE opt[1]

sys_socket(t, domain, type_, protocol) ==
    { Ret(map(syscall(o), Socket(syscall(o).val)), o.fdt,
          <<Call("socket", 0, [domain |-> domain, type_ |-> type_, protocol |-> protocol], t, o)>>)
      : o \in libc_socket(t, domain, type_, protocol) }

\* SockAddr { storage, len }: the storage is summarised by the address it encodes.
from_raw_parts(storage, len) == [storage |-> storage, len |-> len]
as_ptr(a) == a.storage
len(a) == a.len

\* size_of::<libc::sockaddr_storage>()
SizeOfSockaddrStorage == 128

\* size_of::<libc::sa_family_t>(): the address-family tag every sockaddr starts with.
SizeOfSaFamily == 2

\* An address buffer is MaybeUninit until the kernel fills it in.
Uninit == "uninit"

sys_connect(t, sockfd, addr, addrlen) ==
    { Ret(map(syscall(o), Unit), o.fdt,
          <<Call("connect", sockfd, [addr |-> addr, addrlen |-> addrlen], t, o)>>)
      : o \in libc_connect(t, sockfd, addr, addrlen) }

sys_bind(t, sockfd, addr, addrlen) ==
    { Ret(map(syscall(o), Unit), o.fdt,
          <<Call("bind", sockfd, [addr |-> addr, addrlen |-> addrlen], t, o)>>)
      : o \in libc_bind(t, sockfd, addr, addrlen) }

sys_listen(t, sockfd, backlog) ==
    { Ret(map(syscall(o), Unit), o.fdt,
          <<Call("listen", sockfd, [backlog |-> backlog], t, o)>>)
      : o \in libc_listen(t, sockfd, backlog) }

\* (mutant) wraps the listener's descriptor instead of the one accept(2) returned.
sys_accept_alias(t, sockfd) ==
    { Ret(map(syscall(o),
              Pair(Socket(sockfd), from_raw_parts(o.out.addr, o.out.len))),
          o.fdt,
          <<Call("accept", sockfd, [storage |-> Uninit, len |-> SizeOfSockaddrStorage], t, o)>>)
      : o \in libc_accept(t, sockfd) }

sys_accept(t, sockfd) ==
    { Ret(map(syscall(o),
              Pair(Socket(syscall(o).val), from_raw_parts(o.out.addr, o.out.len))),
          o.fdt,
          <<Call("accept", sockfd, [storage |-> Uninit, len |-> SizeOfSockaddrStorage], t, o)>>)
      : o \in libc_accept(t, sockfd) }

\* (mutant) takes the capacity of the buffer for the length of the address.
sys_getsockname_capacity(t, sockfd) ==
    { Ret(map(syscall(o), from_raw_parts(o.out.addr, SizeOfSockaddrStorage)), o.fdt,
          <<Call("getsockname", sockfd, [storage |-> Uninit, len |-> SizeOfSockaddrStorage], t, o)>>)
      : o \in libc_getsockname(t, sockfd) }

sys_getsockname(t, sockfd) ==
    { Ret(map(syscall(o), from_raw_parts(o.out.addr, o.out.len)), o.fdt,
          <<Call("getsockname", sockfd, [storage |-> Uninit, len |-> SizeOfSockaddrStorage], t, o)>>)
      : o \in libc_getsockname(t, sockfd) }

\* (mutant) asks for the socket's own name where the peer's is wanted.
sys_getpeername_local(t, sockfd) ==
    { Ret(map(syscall(o), from_raw_parts(o.out.addr, o.out.len)), o.fdt,
          <<Call("getsockname", sockfd, [storage |-> Uninit, len |-> SizeOfSockaddrStorage], t, o)>>)
      : o \in libc_getsockname(t, sockfd) }

\* (mutant) builds the SockAddr from the buffer without looking at what the call
\* returned; a buffer the kernel left alone reads as zeroes here.
sys_getpeername_unchecked(t, sockfd) ==
    { Ret(Ok(IF o.ret = -1
             THEN from_raw_parts(0, SizeOfSockaddrStorage)
             ELSE from_raw_parts(o.out.addr, o.out.len)),
          o.fdt,
          <<Call("getpeername", sockfd, [storage |-> Uninit, len |-> SizeOfSockaddrStorage], t, o)>>)
      : o \in libc_getpeername(t, sockfd) }

sys_getpeername(t, sockfd) ==
    { Ret(map(syscall(o), from_raw_parts(o.out.addr, o.out.len)), o.fdt,
          <<Call("getpeername", sockfd, [storage |-> Uninit, len |-> SizeOfSockaddrStorage], t, o)>>)
      : o \in libc_getpeername(t, sockfd) }

\* std::net::Shutdown -> SHUT_WR (1), SHUT_RD (0), SHUT_RDWR (2)
Shutdown == {"Write", "Read", "Both"}
ShutHow(how) == CASE how = "Write" -> 1 [] how = "Read" -> 0 [] how = "Both" -> 2

sys_shutdown(t, sockfd, how) ==
    { Ret(map(syscall(o), Unit), o.fdt,
          <<Call("shutdown", sockfd, [how |-> ShutHow(how)], t, o)>>)
      : o \in libc_shutdown(t, sockfd, ShutHow(how)) }

sys_fcntl(t, sockfd, cmd, arg) ==
    { Ret(map(syscall(o), c_int(syscall(o).val)), o.fdt,
          <<Call("fcntl", sockfd, [cmd |-> cmd, arg |-> arg], t, o)>>)
      : o \in libc_fcntl(t, sockfd, cmd, arg) }

\* The types T the caller instantiates the option calls with, and size_of::<T>().
OptTypes == {"u8", "c_int", "u64"}
size_of(T) == CASE T = "u8" -> 1 [] T = "c_int" -> 4 [] T = "u64" -> 8

\* A value of type T is its in-memory bytes.
Zeros(n) == [i \in 1..n |-> 0]
Bytes(T, b) == [i \in 1..size_of(T) |-> IF i = 1 THEN b ELSE 0]

\* What the bytes of a MaybeUninit the kernel did not write can read as.
Junk == {0, 255}

\* (mutant) hands the kernel a zeroed temporary instead of the caller's value.
sys_setsockopt_zeroed(t, sockfd, level, optname, T, opt) ==
    { Ret(map(syscall(o), Unit), o.fdt,
          <<Call("setsockopt", sockfd,
                 [level |-> level, optname |-> optname, opt |-> Zeros(size_of(T)),
                  optlen |-> size_of(T)], t, o)>>)
      : o \in libc_setsockopt(t, sockfd, level, optname, Zeros(size_of(T)), size_of(T)) }

sys_setsockopt(t, sockfd, level, optname, T, opt) ==
    { Ret(map(syscall(o), Unit), o.fdt,
          <<Call("setsockopt", sockfd,
                 [level |-> level, optname |-> optname, opt |-> opt,
                  optlen |-> size_of(T)], t, o)>>)
      : o \in libc_setsockopt(t, sockfd, level, optname, opt, size_of(T)) }

\* The panic of a failed debug_assert_eq!.
Panic == [tag |-> "Panic", val |-> <<>>, errno |-> ""]

\* optval.assume_init(): the bytes the kernel wrote, then whatever the rest holds.
assume_init(T, written, junk) ==
    [bytes |-> written \o [i \in 1..(size_of(T) - Len(written)) |-> junk]]

sys_getsockopt(t, sockfd, level, optname, T) ==
    { Ret(IF o.ret # -1 /\ debug_assertions /\ o.out.len # size_of(T)
          THEN Panic
          ELSE map(syscall(o), assume_init(T, o.out.val, junk)),
          o.fdt,
          <<Call("getsockopt", sockfd,
                 [level |-> level, optname |-> optname, optval |-> Uninit,
                  optlen |-> size_of(T)], t, o)>>)
      : o \in libc_getsockopt(t, sockfd, level, optname, size_of(T)), junk \in Junk }

\* ------------------------------------------------------- crate: ownership
Inc(f, fd) == [f EXCEPT ![fd] = @ + 1]
Dec(f, fd) == [f EXCEPT ![fd] = @ - 1]

Live(fd) == fd \in Fds /\ socks[fd] > 0

\* The record of the most recent operation: which, on which Socket, the value the
\* caller passed by reference (setsockopt's opt; empty otherwise), the native
\* calls made and the result returned.
Last(op, self, calls, res) ==
    [op |-> op, self |-> self, arg |-> <<>>, calls |-> calls, res |-> res]

\* Socket::new
new(domain, type_, protocol) ==
    \E x \in sys_socket(fdt, domain, type_, unwrap_or(protocol, 0)) :
        /\ fdt' = x.fdt
        /\ socks' = IF x.res.tag = "Ok" THEN Inc(socks, x.res.val.inner) ELSE socks
        /\ last' = Last("new", 0, x.calls, x.res)
        /\ UNCHANGED <<nofile, debug_assertions, hosts, raws, misuse>>

\* FromRawFd for Socket: wraps the integer it is given, unchecked.  The caller
\* hands it a descriptor it owns (one of `raws`) or, against the contract of this
\* unsafe fn, the value as_raw_fd returns for a live Socket; `misuse` counts the
\* latter.
from_raw_fd(fd) ==
    /\ fd \in raws \/ (Live(fd) /\ misuse < MaxMisuse)
    /\ socks' = Inc(socks, fd)
    /\ raws' = raws \ {fd}
    /\ misuse' = IF fd \in raws THEN misuse ELSE misuse + 1
    /\ last' = Last("from_raw_fd", fd, <<>>, Ok(Socket(fd)))
    /\ UNCHANGED <<nofile, debug_assertions, fdt, hosts>>

\* (mutant) gives the descriptor away as into_raw_fd does.
as_raw_fd_moves(s) ==
    /\ Live(s)
    /\ socks' = Dec(socks, s)
    /\ raws' = raws \cup {s}
    /\ last' = Last("as_raw_fd", s, <<>>, Ok(c_int(s)))
    /\ UNCHANGED <<nofile, debug_assertions, fdt, hosts, misuse>>

\* AsRawFd for Socket
as_raw_fd(s) ==
    /\ Live(s)
    /\ last' = Last("as_raw_fd", s, <<>>, Ok(c_int(s)))
    /\ UNCHANGED <<nofile, debug_assertions, fdt, socks, hosts, raws, misuse>>

\* (mutant) the value goes out of scope instead: its destructor closes the descriptor.
forget_drops(s) ==
    LET o == CHOOSE o \in libc_close(fdt, s) : TRUE
    IN [socks |-> Dec(socks, s), fdt |-> o.fdt, calls |-> <<Call("close", s, <<>>, fdt, o)>>]

\* mem::forget(self): the value is gone and its destructor never runs.
forget(s) == [socks |-> Dec(socks, s), fdt |-> fdt, calls |-> <<>>]

\* IntoRawFd for Socket
into_raw_fd(s) ==
    /\ Live(s)
    /\ LET f == forget(s) IN
        /\ socks' = f.socks
        /\ fdt' = f.fdt
        /\ raws' = raws \cup {s}
        /\ last' = Last("into_raw_fd", s, f.calls, Ok(c_int(s)))
    /\ UNCHANGED <<nofile, debug_assertions, hosts, misuse>>

\* (mutant) a destructor that never closes.
drop_leaks(s) ==
    /\ Live(s)
    /\ socks' = Dec(socks, s)
    /\ last' = Last("drop", s, <<>>, Ok(Unit))
    /\ UNCHANGED <<nofile, debug_assertions, fdt, hosts, raws, misuse>>

\* (mutant) a destructor that unwraps the result of close.
drop_unwrap(s) ==
    /\ Live(s)
    /\ \E o \in libc_close(fdt, s) :
        /\ fdt' = o.fdt
        /\ socks' = Dec(socks, s)
        /\ last' = Last("drop", s, <<Call("close", s, <<>>, fdt, o)>>,
                        IF o.ret = -1 THEN Panic ELSE Ok(Unit))
    /\ UNCHANGED <<nofile, debug_assertions, hosts, raws, misuse>>

\* Drop for Socket: close(self.inner), the return value thrown away.
drop(s) ==
    /\ Live(s)
    /\ \E o \in libc_close(fdt, s) :
        /\ fdt' = o.fdt
        /\ socks' = Dec(socks, s)
        /\ last' = Last("drop", s, <<Call("close", s, <<>>, fdt, o)>>, Ok(Unit))
    /\ UNCHANGED <<nofile, debug_assertions, hosts, raws, misuse>>

\* ------------------------------------------------ crate: Socket operations
\* A &self method: the Socket stays with the caller; only the kernel and the
\* record of the operation change.
Borrowed(op, s, x) ==
    /\ fdt' = x.fdt
    /\ last' = Last(op, s, x.calls, x.res)
    /\ UNCHANGED <<nofile, debug_assertions, socks, hosts, raws, misuse>>

\* Addresses the caller builds (SocketAddr -> SockAddr): a sockaddr_in.
SockAddrs == {from_raw_parts(a, NativeAddrLen) : a \in AnyAddr}

\* Socket::connect
connect(s, addr) ==
    Live(s) /\ \E x \in sys_connect(fdt, s, as_ptr(addr), len(addr)) : Borrowed("connect", s, x)

\* Socket::bind
bind(s, addr) ==
    Live(s) /\ \E x \in sys_bind(fdt, s, as_ptr(addr), len(addr)) : Borrowed("bind", s, x)

\* Socket::local_addr
local_addr(s) ==
    Live(s) /\ \E x \in sys_getsockname(fdt, s) : Borrowed("local_addr", s, x)

\* Socket::peer_addr
peer_addr(s) ==
    Live(s) /\ \E x \in sys_getpeername(fdt, s) : Borrowed("peer_addr", s, x)

\* Socket::listen
listen(s, backlog) ==
    Live(s) /\ \E x \in sys_listen(fdt, s, backlog) : Borrowed("listen", s, x)

\* A call that returns a new Socket to the caller.
Accepted(op, s, x) ==
    /\ fdt' = x.fdt
    /\ socks' = IF x.res.tag = "Ok" THEN Inc(socks, x.res.val.fst.inner) ELSE socks
    /\ last' = Last(op, s, x.calls, x.res)
    /\ UNCHANGED <<nofile, debug_assertions, hosts, raws, misuse>>

\* Socket::accept
accept(s) ==
    Live(s) /\ \E x \in sys_accept(fdt, s) : Accepted("accept", s, x)

\* Socket::accept4 (unix): as sys::accept, with the flags passed on.
accept4(s, flags) ==
    /\ Live(s)
    /\ \E o \in libc_accept(fdt, s) :
        Accepted("accept4", s,
            Ret(map(syscall(o),
                    Pair(Socket(syscall(o).val), from_raw_parts(o.out.addr, o.out.len))),
                o.fdt,
                <<Call("accept4", s, [storage |-> Uninit, len |-> SizeOfSockaddrStorage, flags |-> flags], fdt, o)>>))

\* Socket::shutdown
shutdown(s, how) ==
    Live(s) /\ \E x \in sys_shutdown(fdt, s, how) : Borrowed("shutdown", s, x)

\* Socket::fcntl
fcntl(s, cmd, arg) ==
    Live(s) /\ \E x \in sys_fcntl(fdt, s, cmd, arg) : Borrowed("fcntl", s, x)

\* Socket::pair (unix): fds starts as [0, 0]; the kernel overwrites both on success.
pair_dup(t, domain, type_, protocol) ==
    { LET fds == IF o.ret = -1 THEN <<0, 0>> ELSE o.out.sv
      IN Ret(map(syscall(o), Pair(Socket(fds[1]), Socket(fds[1]))), o.fdt,
             <<Call("socketpair", 0,
                    [domain |-> domain, type_ |-> type_,
                     protocol |-> unwrap_or(protocol, 0)], t, o)>>)
      : o \in libc_socketpair(t, domain, type_, unwrap_or(protocol, 0)) }

\* (mutant) wraps fds before looking at what socketpair returned: after a failure
\* the two Sockets on the placeholder 0 are dropped, each closing it.
pair_eager(t, domain, type_, protocol) ==
    { LET fds == IF o.ret = -1 THEN <<0, 0>> ELSE o.out.sv
          sp == Call("socketpair", 0,
                     [domain |-> domain, type_ |-> type_,
                      protocol |-> unwrap_or(protocol, 0)], t, o)
          cl == Call("close", 0, <<>>, o.fdt, CHOOSE x \in libc_close(o.fdt, 0) : TRUE)
      IN Ret(map(syscall(o), Pair(Socket(fds[1]), Socket(fds[2]))), o.fdt,
             IF o.ret = -1 THEN <<sp, cl, cl>> ELSE <<sp>>)
      : o \in libc_socketpair(t, domain, type_, unwrap_or(protocol, 0)) }

Socket_pair(t, domain, type_, protocol) ==
    { LET fds == IF o.ret = -1 THEN <<0, 0>> ELSE o.out.sv
      IN Ret(map(syscall(o), Pair(Socket(fds[1]), Socket(fds[2]))), o.fdt,
             <<Call("socketpair", 0,
                    [domain |-> domain, type_ |-> type_,
                     protocol |-> unwrap_or(protocol, 0)], t, o)>>)
      : o \in libc_socketpair(t, domain, type_, unwrap_or(protocol, 0)) }

\* The caller receiving both Sockets of a pair.
pair(domain, type_, protocol) ==
    \E x \in Socket_pair(fdt, domain, type_, protocol) :
        /\ fdt' = x.fdt
        /\ socks' = IF x.res.tag = "Ok"
                    THEN Inc(Inc(socks, x.res.val.fst.inner), x.res.val.snd.inner)
                    ELSE socks
        /\ last' = Last("pair", 0, x.calls, x.res)
        /\ UNCHANGED <<nofile, debug_assertions, hosts, raws, misuse>>

\* Socket::setsockopt
setsockopt(s, level, optname, T, opt) ==
    /\ Live(s)
    /\ \E x \in sys_setsockopt(fdt, s, level, optname, T, opt) :
        /\ fdt' = x.fdt
        /\ last' = [Last("setsockopt", s, x.calls, x.res) EXCEPT !.arg = opt]
        /\ UNCHANGED <<nofile, debug_assertions, socks, hosts, raws, misuse>>

\* Socket::getsockopt
getsockopt(s, level, optname, T) ==
    /\ Live(s)
    /\ \E x \in sys_getsockopt(fdt, s, level, optname, T) : Borrowed("getsockopt", s, x)

\* io::Error::from_raw_os_error
from_raw_os_error(errno) == [os_error |-> errno]

\* (mutant) without the `errno == 0` test.
take_error_always_some(s) ==
    /\ Live(s)
    /\ \E x \in sys_getsockopt(fdt, s, 1, 4, "c_int") :
        Borrowed("take_error", s,
                 [x EXCEPT !.res =
                     IF x.res.tag = "Ok"
                     THEN Ok(Some(from_raw_os_error(ToInt(x.res.val.bytes))))
                     ELSE x.res])

\* Socket::take_error: getsockopt::<c_int>(SOL_SOCKET, SO_ERROR)
take_error(s) ==
    /\ Live(s)
    /\ \E x \in sys_getsockopt(fdt, s, 1, 4, "c_int") :
        Borrowed("take_error", s,
                 [x EXCEPT !.res =
                     IF x.res.tag = "Ok"
                     THEN Ok(IF ToInt(x.res.val.bytes) = 0
                             THEN None
                             ELSE Some(from_raw_os_error(ToInt(x.res.val.bytes))))
                     ELSE x.res])

\* The kernel records an asynchronous failure (a refused non-blocking connect, a
\* reset) in the socket's pending-error slot.
pending_error(fd, e) ==
    /\ IsOpen(fdt, fd)
    /\ fdt[fd].err = 0
    /\ fdt' = [fdt EXCEPT ![fd].err = e]
    /\ last' = Last("pending_error", fd, <<>>, Ok(Unit))
    /\ UNCHANGED <<nofile, debug_assertions, socks, hosts, raws, misuse>>

\* -------------------------------------------------- crate: std conversions
HostTypes == {"TcpStream", "TcpListener", "UdpSocket",
              "UnixStream", "UnixListener", "UnixDatagram"}

\* Into<K> for Socket: K::from_raw_fd(self.into_raw_fd())
into(s, k) ==
    /\ Live(s)
    /\ LET f == forget(s) IN
        /\ socks' = f.socks
        /\ fdt' = f.fdt
        /\ hosts' = Inc(hosts, s)
        /\ last' = Last("into", s, f.calls, Ok(Unit))
    /\ UNCHANGED <<nofile, debug_assertions, raws, misuse>>

\* (mutant) takes the descriptor with as_raw_fd: the std object keeps owning it.
from_as_raw_fd(k, fd) ==
    /\ hosts[fd] > 0
    /\ socks' = Inc(socks, fd)
    /\ last' = Last("from", fd, <<>>, Ok(Socket(fd)))
    /\ UNCHANGED <<nofile, debug_assertions, fdt, hosts, raws, misuse>>

\* From<K> for Socket: Socket::from_raw_fd(socket.into_raw_fd())
from(k, fd) ==
    /\ hosts[fd] > 0
    /\ hosts' = Dec(hosts, fd)
    /\ socks' = Inc(socks, fd)
    /\ last' = Last("from", fd, <<>>, Ok(Socket(fd)))
    /\ UNCHANGED <<nofile, debug_assertions, fdt, raws, misuse>>

\* The std object going out of scope (drop(tcp_socket) in the tests): std closes
\* the descriptor it owns.
drop_host(fd) ==
    /\ hosts[fd] > 0
    /\ \E o \in libc_close(fdt, fd) :
        /\ fdt' = o.fdt
        /\ hosts' = Dec(hosts, fd)
        /\ last' = Last("drop_host", fd, <<Call("close", fd, <<>>, fdt, o)>>, Ok(Unit))
    /\ UNCHANGED <<nofile, debug_assertions, socks, raws, misuse>>

\* ------------------------------------------------------------ specification
Backlogs == {1024}
Flags == {0, 2048}
Cmds == {1, 2, 3}
FcntlArgs == {1}
OptNames == {4, 18, 99}
OptBytes == {0, 1}
PendingErrors == {111}

InitWith(limit) ==
    /\ nofile = limit
    /\ debug_assertions \in BOOLEAN
    /\ fdt = [fd \in Fds |-> ClosedSock]
    /\ socks = [fd \in Fds |-> 0]
    /\ hosts = [fd \in Fds |-> 0]
    /\ raws = {}
    /\ misuse = 0
    /\ last = Last("init", 0, <<>>, Ok(Unit))

Init == InitWith(NoFile)

\* Creating, moving and destroying Sockets.
NextOwn ==
    \/ \E d \in Domains, ty \in Types, p \in Protocols : new(d, ty, p)
    \/ \E d \in Domains, ty \in Types, p \in Protocols : pair(d, ty, p)
    \/ \E fd \in Fds : from_raw_fd(fd)
    \/ \E s \in Fds : as_raw_fd(s)
    \/ \E s \in Fds : into_raw_fd(s)
    \/ \E s \in Fds : drop(s)
    \/ \E s \in Fds, k \in HostTypes : into(s, k)
    \/ \E k \in HostTypes, fd \in Fds : from(k, fd)
    \/ \E fd \in Fds : drop_host(fd)

\* Addresses and connections.
NextNet ==
    \/ \E s \in Fds, a \in SockAddrs : connect(s, a)
    \/ \E s \in Fds, a \in SockAddrs : bind(s, a)
    \/ \E s \in Fds, b \in Backlogs : listen(s, b)
    \/ \E s \in Fds : accept(s)
    \/ \E s \in Fds, fl \in Flags : accept4(s, fl)
    \/ \E s \in Fds : local_addr(s)
    \/ \E s \in Fds : peer_addr(s)
    \/ \E s \in Fds, how \in Shutdown : shutdown(s, how)
    \/ \E s \in Fds, c \in Cmds, a \in FcntlArgs : fcntl(s, c, a)

\* Socket options: the option names in N, the types in TT, and the first byte of
\* the values set drawn from B.
OptOps(N, TT, B) ==
    \/ \E s \in Fds, n \in N, T \in TT, b \in B : setsockopt(s, 1, n, T, Bytes(T, b))
    \/ \E s \in Fds, n \in N, T \in TT : getsockopt(s, 1, n, T)
    \/ \E s \in Fds : take_error(s)

\* The kernel side of a connection failing asynchronously.
NextErr == \E fd \in Fds, e \in PendingErrors : pending_error(fd, e)

\* Sockets created and dropped, nothing else.
NextLife ==
    \/ \E d \in Domains, ty \in Types, p \in Protocols : new(d, ty, p)
    \/ \E s \in Fds : drop(s)

\* Sockets handed to std and back.
NextStd ==
    \/ \E s \in Fds, k \in HostTypes : into(s, k)
    \/ \E k \in HostTypes, fd \in Fds : from(k, fd)
    \/ \E fd \in Fds : drop_host(fd)

\* Every operation of the crate.
Next == NextOwn \/ NextNet \/ OptOps(OptNames, OptTypes, {0})

Spec == Init /\ [][Next]_vars

\* Ownership alone.
SpecOwn == Init /\ [][NextOwn]_vars

\* Sockets with addresses and connections, handed to std and back.
SpecNet == Init /\ [][NextLife \/ NextStd \/ NextNet]_vars

\* A listener, a client and the accepted socket open together.
SpecConn == InitWith(MaxFds) /\ [][NextLife \/ NextNet]_vars

\* Ownership changing hands while the Sockets are in use.
SpecUse == Init /\ [][NextOwn \/ NextNet \/ OptOps({18}, {"c_int"}, {0})]_vars

\* Every operation that goes to the kernel.
NextOps ==
    \/ NextLife
    \/ \E d \in Domains, ty \in Types, p \in Protocols : pair(d, ty, p)
    \/ NextNet
    \/ OptOps(OptNames, OptTypes, {0})

SpecOps == Init /\ [][NextOps]_vars

\* Options and the pending-error slot.
SpecOpt == Init /\ [][NextLife \/ OptOps(OptNames, OptTypes, OptBytes) \/ NextErr]_vars

\* ------------------------------------------------------------------ claims
\* Who is responsible for closing the descriptor value fd: Sockets, std objects
\* and the caller holding it raw.
Holders(fd) == socks[fd] + hosts[fd] + (IF fd \in raws THEN 1 ELSE 0)

\* The Socket methods taking &self, which issue one native call on self.inner.
SelfOps == {"connect", "bind", "listen", "accept", "accept4", "local_addr", "peer_addr",
            "shutdown", "fcntl", "setsockopt", "getsockopt", "take_error"}

\* Every open descriptor has exactly one party that will close it and no closed
\* descriptor has any; a drop issues one close on a descriptor that is open; a
\* transfer out issues none and leaves the descriptor open.
ClosedExactlyOnce ==
    /\ \A fd \in Fds : Holders(fd) = (IF IsOpen(fdt, fd) THEN 1 ELSE 0)
    /\ last.op = "drop" =>
          /\ Len(last.calls) = 1
          /\ last.calls[1].fn = "close" /\ last.calls[1].fd = last.self
          /\ last.calls[1].open
    /\ last.op \in {"into_raw_fd", "into"} =>
          /\ last.calls = <<>>
          /\ IsOpen(fdt, last.self)

OwnedAndOpen ==
    last.op \in SelfOps =>
        /\ socks[last.self] = 1 /\ Holders(last.self) = 1
        /\ \A i \in 1..Len(last.calls) :
              last.calls[i].fd = last.self /\ last.calls[i].open

\* C2 as stated: no native call on a closed or transferred descriptor, in every
\* reachable state.
C2_NoUseAfterClose_AnyCaller == OwnedAndOpen

\* C2 (amended): as long as every from_raw_fd was given a descriptor the caller
\* owned, each native call issued for a Socket targets the descriptor that Socket
\* still owns and that is still open.
C2_NoUseAfterClose == misuse = 0 => OwnedAndOpen

\* With the contract kept, a Socket issued a native call that found its
\* descriptor open and succeeded.
C2_Witness ==
    /\ misuse = 0
    /\ last.op = "bind" /\ last.res.tag = "Ok"
    /\ last.calls[1].open

\* A live Socket's descriptor is open, and no two live Sockets hold the same one.
Unaliased == \A fd \in Fds : socks[fd] <= 1 /\ (socks[fd] >= 1 => IsOpen(fdt, fd))

C4_IntoRawFd ==
    [][last'.op = "into_raw_fd" =>
          /\ socks[last'.self] >= 1
          /\ socks' = Dec(socks, last'.self)
          /\ last'.res = Ok(c_int(last'.self))
          /\ last'.calls = <<>>
          /\ fdt' = fdt
          /\ last'.self \in raws']_vars

\* into_raw_fd has returned the descriptor of an open socket, which no Socket holds
\* any more.
C4_Witness ==
    /\ last.op = "into_raw_fd"
    /\ IsOpen(fdt, last.self)
    /\ socks[last.self] = 0
    /\ last.self \in raws

\* ---- C5: conversion round-trip
\* C5.  Converting a Socket into a std type and a std object back into a Socket
\* cannot fail and makes no native call, so nothing is closed; the descriptor
\* table (bound address, listening, queue, peer) is untouched.  `into` moves the
\* one reference to the descriptor from the Socket to the std object, `from`
\* moves it back, and the Socket `from` returns wraps the very same descriptor
\* value.
C5_ConversionRoundTrip ==
    [][ /\ last'.op = "into" =>
            /\ socks[last'.self] >= 1
            /\ socks' = Dec(socks, last'.self)
            /\ hosts' = Inc(hosts, last'.self)
            /\ last'.res.tag = "Ok"
            /\ last'.calls = <<>>
            /\ fdt' = fdt
        /\ last'.op = "from" =>
            /\ hosts[last'.self] >= 1
            /\ hosts' = Dec(hosts, last'.self)
            /\ socks' = Inc(socks, last'.self)
            /\ last'.res = Ok(Socket(last'.self))
            /\ last'.calls = <<>>
            /\ fdt' = fdt
      ]_vars

\* A listening socket with a connection waiting has been to std and is back as a
\* Socket, the only owner of its descriptor: accept on it will succeed.
C5_Witness ==
    /\ last.op = "from"
    /\ socks[last.self] = 1
    /\ hosts[last.self] = 0
    /\ fdt[last.self].lis
    /\ fdt[last.self].laddr # 0
    /\ fdt[last.self].q # <<>>
    /\ \A x \in sys_accept(fdt, last.self) : x.res.tag = "Ok"

\* ---- C10: connect/accept address agreement
\* What local_addr / peer_addr return on Socket s in kernel state t.
LocalAddrIn(t, s) == {x.res : x \in sys_getsockname(t, s)}
PeerAddrIn(t, s) == {x.res : x \in sys_getpeername(t, s)}

\* C10.  When a listener's accept (or accept4) succeeds and the Socket that made
\* the accepted connection is still around, the address accept returns and the
\* accepted Socket's peer_addr are both the connecting Socket's local_addr, and
\* the connecting Socket's peer_addr is the listener's local_addr.
C10_AddressAgreement ==
    [][ (last'.op \in {"accept", "accept4"} /\ last'.res.tag = "Ok") =>
          LET listener == last'.self
              client == Head(fdt[listener].q).from
              accepted == last'.res.val.fst.inner
              addr == last'.res.val.snd
          IN  (client # 0 /\ socks[client] >= 1) =>
                /\ LocalAddrIn(fdt', client) = {Ok(addr)}
                /\ PeerAddrIn(fdt', accepted) = {Ok(addr)}
                /\ \E a \in SockAddrs : /\ as_ptr(a) # 0
                                        /\ LocalAddrIn(fdt', listener) = {Ok(a)}
                                        /\ PeerAddrIn(fdt', client) = {Ok(a)}
      ]_vars

\* The listener has just accepted; it, the connecting Socket and the accepted
\* Socket are three live Sockets, the latter two connected to each other.
C10_Witness ==
    /\ last.op = "accept"
    /\ last.res.tag = "Ok"
    /\ \E client \in Fds \ {last.self, last.res.val.fst.inner} :
        /\ socks[client] = 1
        /\ fdt[client].conn
        /\ fdt[client].peer = fdt[last.self].laddr
        /\ fdt[last.res.val.fst.inner].peer = fdt[client].laddr
    /\ socks[last.self] = 1
    /\ socks[last.res.val.fst.inner] = 1

\* ---- C6: getsockopt and the length the kernel reports
\* The native getsockopt behind the last operation succeeded and reported a
\* length other than the size of the buffer it was offered, size_of::<T>().
LengthMismatch ==
    /\ last.op = "getsockopt"
    /\ last.calls[1].ret # -1
    /\ last.calls[1].out.len # last.calls[1].args.optlen

\* C6.  A getsockopt whose native call succeeded with a reported length other
\* than size_of::<T>() does not return Ok(value).
C6_NeverExposed == LengthMismatch => last.res.tag # "Ok"

\* The same, in a build with debug assertions: the call panics.
C6_NeverExposed_Debug == (debug_assertions /\ LengthMismatch) => last.res = Panic

\* A build without debug assertions has returned Ok(value) for an option the
\* kernel wrote fewer bytes of than the value has; the rest of the value is
\* whatever the uninitialised buffer held.
C6_Witness ==
    /\ ~debug_assertions
    /\ LengthMismatch
    /\ last.res.tag = "Ok"
    /\ Len(last.res.val.bytes) = last.calls[1].args.optlen
    /\ last.calls[1].out.len < last.calls[1].args.optlen
    /\ last.res.val.bytes[last.calls[1].args.optlen] # 0

\* ---- C7: option round-trip
\* The last operation was a setsockopt / getsockopt on an open socket.
SetDone == last.op = "setsockopt" /\ last.calls[1].open
GetDone == last.op = "getsockopt" /\ last.calls[1].open

\* A getsockopt directly after a successful setsockopt, on the same socket, with
\* the same level, option name and type.
GetAfterSet ==
    /\ SetDone
    /\ last.res.tag = "Ok"
    /\ last'.op = "getsockopt"
    /\ last'.self = last.self
    /\ last'.calls[1].args.level = last.calls[1].args.level
    /\ last'.calls[1].args.optname = last.calls[1].args.optname
    /\ last'.calls[1].args.optlen = Len(last.arg)

C8_TakeError ==
    [][ last'.op = "take_error" =>
          LET s == last'.self IN
            IsOpen(fdt, s) =>
              /\ fdt[s].err = 0 => last'.res = Ok(None)
              /\ fdt[s].err # 0 => last'.res = Ok(Some(from_raw_os_error(fdt[s].err)))
              /\ fdt'[s].err = 0
              /\ (last.op = "take_error" /\ last.self = s) => last'.res = Ok(None)
      ]_vars

\* A pending error has just been surfaced and the slot is empty again.
C8_Witness ==
    /\ last.op = "take_error"
    /\ last.res.tag = "Ok"
    /\ last.res.val # None
    /\ last.res.val.some.os_error \in PendingErrors
    /\ fdt[last.self].err = 0

\* ---- C9: one native call per operation, its error passed on
\* The operations of Socket that go to the kernel.
NativeOps ==
    {"new", "connect", "bind", "listen", "accept", "local_addr", "peer_addr",
     "shutdown", "take_error", "setsockopt", "getsockopt", "fcntl", "pair", "accept4"}

\* The operation made exactly one native call and returned Err with that call's
\* errno if it returned -1.
OneCallErrPassedOn ==
    /\ Len(last.calls) = 1
    /\ last.calls[1].ret = -1 => last.res = Err(last.calls[1].errno)

\* C9 as stated: ... and otherwise the operation returns Ok.
C9_OneNativeCall_AlwaysOk ==
    last.op \in NativeOps =>
        /\ OneCallErrPassedOn
        /\ last.calls[1].ret # -1 => last.res.tag = "Ok"

\* C9.  Every Socket operation makes exactly one native call; if the call
\* returns -1 the operation returns Err with the call's errno, whichever it is;
\* otherwise it returns Ok, except that getsockopt, in a build with debug
\* assertions, panics when the length the kernel reports is not size_of::<T>().
C9_OneNativeCall ==
    last.op \in NativeOps =>
        /\ OneCallErrPassedOn
        /\ last.calls[1].ret # -1 =>
              IF debug_assertions /\ LengthMismatch
              THEN last.res = Panic
              ELSE last.res.tag = "Ok"

\* accept on a listener with nothing queued: one accept call, its EAGAIN returned
\* as it is.
C9_Witness ==
    /\ last.op = "accept"
    /\ Len(last.calls) = 1
    /\ last.calls[1].fn = "accept"
    /\ last.calls[1].ret = -1
    /\ last.res = Err("EAGAIN")

\* ---- C11: the length of an address the kernel filled in
\* The operations that hand the kernel an address buffer to fill.
AddrOps == {"accept", "accept4", "local_addr", "peer_addr"}

\* The SockAddr the last operation returned.
ReturnedAddr == IF last.op \in {"accept", "accept4"} THEN last.res.val.snd ELSE last.res.val

PassedOn(d, ty, p) ==
    [domain |-> d, type_ |-> ty, protocol |-> IF p = <<>> THEN 0 ELSE p[1]]

\* C12.  Every step of Socket::new(d, ty, p) makes one socket call with d and ty
\* as given and protocol 0 for None, q for Some(q), and on success returns the one
\* Socket that holds the descriptor returned; every step of Socket::pair(d, ty, p)
\* makes one socketpair call with the same arguments and on success returns two
\* Sockets holding the two different descriptors the kernel wrote.
C12_NewAndPair ==
    [][ \A d \in Domains, ty \in Types, p \in Protocols :
          /\ new(d, ty, p) =>
                LET c == last'.calls[1] IN
                /\ Len(last'.calls) = 1
                /\ c.fn = "socket"
                /\ c.args = PassedOn(d, ty, p)
                /\ c.ret # -1 =>
                      /\ last'.res = Ok(Socket(c.ret))
                      /\ ~IsOpen(fdt, c.ret) /\ IsOpen(fdt', c.ret)
                      /\ socks' = Inc(socks, c.ret)
          /\ pair(d, ty, p) =>
                LET c == last'.calls[1] IN
                /\ Len(last'.calls) = 1
                /\ c.fn = "socketpair"
                /\ c.args = PassedOn(d, ty, p)
                /\ c.ret # -1 =>
                      LET a == c.out.sv[1]
                          b == c.out.sv[2]
                      IN  /\ a # b
                          /\ last'.res = Ok(Pair(Socket(a), Socket(b)))
                          /\ ~IsOpen(fdt, a) /\ ~IsOpen(fdt, b)
                          /\ IsOpen(fdt', a) /\ IsOpen(fdt', b)
                          /\ socks' = Inc(Inc(socks, a), b)
      ]_vars

\* new with Some(tcp) has passed protocol 6 and returned the Socket of the
\* descriptor it got, the only one holding it.
C12_Witness ==
    /\ last.op = "new"
    /\ last.res.tag = "Ok"
    /\ last.calls[1].args.protocol = 6
    /\ last.res.val = Socket(last.calls[1].ret)
    /\ socks[last.calls[1].ret] = 1
    /\ IsOpen(fdt, last.calls[1].ret)

\* pair with None has passed protocol 0 and returned two Sockets.
C12_WitnessPair ==
    /\ last.op = "pair"
    /\ last.res.tag = "Ok"
    /\ last.calls[1].args.protocol = 0
    /\ last.res.val.fst # last.res.val.snd

\* ---- C13: teardown
\* C13.  Dropping a Socket makes exactly one native call, close on the Socket's
\* descriptor, and ends the same way whether close succeeds or fails: the drop
\* completes with (), no error and no panic, and that Socket is gone.  A failed
\* close changes nothing in the kernel and is not tried again.
C13_DropDiscardsCloseFailure ==
    [][ last'.op = "drop" =>
          /\ socks[last'.self] >= 1
          /\ socks' = Dec(socks, last'.self)
          /\ Len(last'.calls) = 1
          /\ last'.calls[1].fn = "close"
          /\ last'.calls[1].fd = last'.self
          /\ last'.res = Ok(Unit)
          /\ last'.calls[1].ret = -1 => fdt' = fdt
          /\ UNCHANGED <<hosts, raws>>
      ]_vars

\* A drop whose close failed: the descriptor was already closed (EBADF), the
\* drop returned () all the same and the Socket is gone.
C13_Witness ==
    /\ last.op = "drop"
    /\ last.calls[1].ret = -1
    /\ last.calls[1].errno = "EBADF"
    /\ last.res = Ok(Unit)
    /\ socks[last.self] = 0

\* ---- C14: the address buffer before and after the native call
\* C14.  accept, accept4, local_addr and peer_addr hand the native call a buffer
\* nothing has been written to or read from.  When the call fails the operation
\* returns the error alone: no SockAddr is built, nothing of the buffer or the
\* length reaches the caller.  A SockAddr exists only after a successful call
\* and holds what the kernel wrote.
C14_BufferUninitUntilSuccess ==
    last.op \in AddrOps =>
        LET c == last.calls[1] IN
        /\ c.args.storage = Uninit
        /\ c.ret = -1 => (last.res = Err(c.errno) /\ last.res.val = <<>>)
        /\ last.res.tag = "Ok" =>
              /\ c.ret # -1
              /\ ReturnedAddr = from_raw_parts(c.out.addr, c.out.len)

\* peer_addr on a socket that is not connected: getpeername failed and the
\* caller got ENOTCONN and no address.
C14_Witness ==
    /\ last.op = "peer_addr"
    /\ last.calls[1].args.storage = Uninit
    /\ last.calls[1].ret = -1
    /\ last.res = Err("ENOTCONN")

\* ---- C15: operations that do not consume the Socket
\* as_raw_fd and the &self methods.
NonConsumingOps ==
    {"as_raw_fd", "connect", "bind", "listen", "accept", "accept4", "local_addr",
     "peer_addr", "shutdown", "take_error", "setsockopt", "getsockopt", "fcntl"}

\* C15.  as_raw_fd and every &self operation, whatever its native call returns,
\* leaves the Socket it was called on live and on the same descriptor, issues no
\* close, leaves that descriptor as open as it was, and changes the holders of no
\* other descriptor, except that a successful accept adds the accepted Socket;
\* as_raw_fd returns the descriptor value and makes no native call at all.
C15_NonConsuming ==
    [][ last'.op \in NonConsumingOps =>
          LET s == last'.self IN
          /\ socks[s] >= 1
          /\ socks'[s] = socks[s]
          /\ \A i \in 1..Len(last'.calls) : last'.calls[i].fn # "close"
          /\ IsOpen(fdt', s) = IsOpen(fdt, s)
          /\ UNCHANGED <<hosts, raws>>
          /\ IF last'.op \in {"accept", "accept4"} /\ last'.res.tag = "Ok"
             THEN socks' = Inc(socks, last'.res.val.fst.inner)
             ELSE socks' = socks
          /\ last'.op = "as_raw_fd" =>
                (last'.calls = <<>> /\ last'.res = Ok(c_int(s)) /\ fdt' = fdt)
      ]_vars

\* A failed operation (bind to an address in use, say) has left its Socket live
\* on its open descriptor.
C15_Witness ==
    /\ last.op \in NonConsumingOps \ {"as_raw_fd"}
    /\ last.res.tag = "Err"
    /\ last.calls[1].open
    /\ socks[last.self] = 1
    /\ IsOpen(fdt, last.self)

\* ---- C16: a failed call that would have produced a Socket
\* The operations whose native call returns new descriptors.
ProducingOps == {"new", "accept", "accept4", "pair"}

\* C16.  When the socket, accept, accept4 or socketpair call of new, accept,
\* accept4 or pair returns -1, the operation returns that error and no Socket:
\* it makes no further native call, so no close of -1 or of the placeholder 0,
\* and the live Sockets, the other owners and the open descriptors are what they
\* were before.
C16_FailedCallMakesNoSocket ==
    [][ (last'.op \in ProducingOps /\ last'.calls[1].ret = -1) =>
          /\ Len(last'.calls) = 1
          /\ last'.calls[1].fn \in {"socket", "accept", "accept4", "socketpair"}
          /\ last'.res = Err(last'.calls[1].errno)
          /\ socks' = socks
          /\ OpenFds(fdt') = OpenFds(fdt)
          /\ UNCHANGED <<hosts, raws>>
      ]_vars

\* pair has failed for want of descriptors while a Socket was live: one
\* socketpair call, its error returned, that Socket still the only one.
C16_Witness ==
    /\ last.op = "pair"
    /\ Len(last.calls) = 1
    /\ last.calls[1].ret = -1
    /\ last.res = Err("EMFILE")
    /\ \E fd \in Fds : socks[fd] = 1 /\ IsOpen(fdt, fd)

====
